---- MODULE Spec2Model ----
(***************************************************************************)
(* scratchdb: a fixed-schema row store backed by a page-oriented file and  *)
(* driven by a line-oriented REPL (src/cmd/scratchdb/main.go).             *)
(*                                                                         *)
(* Bytes are naturals 0..255; a Go string or []byte is a sequence of       *)
(* bytes; a nil slice is the empty sequence.  Sequences are 1-based, so    *)
(* the Go byte at offset k is element k+1.                                 *)
(*                                                                         *)
(* The layout constants keep the derivations of the source (RowSize is the *)
(* sum of the field sizes, RowsPerPage is PageSize / IDSize, TableMaxRows  *)
(* is RowsPerPage * TableMaxPages) but the base sizes are scaled down so   *)
(* that pages and files can be enumerated: the source has IDSize 4,        *)
(* UsernameSize 16, EmailSize 16 (string headers), PageSize 4096 and       *)
(* TableMaxPages 4096.                                                     *)
(***************************************************************************)
EXTENDS Integers, Sequences, FiniteSets, TLC

\* ------------------------------------------------------------------------
\* Layout constants (main.go:85-97)
\* ------------------------------------------------------------------------
IDSize == 2
UsernameSize == 2
EmailSize == 2
IDOffset == 0
UsernameOffset == IDOffset + IDSize
EmailOffset == UsernameOffset + UsernameSize
RowSize == IDSize + UsernameSize + EmailSize
TableMaxPages == 2
PageSize == 16
RowsPerPage == PageSize \div IDSize
TableMaxRows == RowsPerPage * TableMaxPages

\* ------------------------------------------------------------------------
\* Bounds of the model
\* ------------------------------------------------------------------------
\* number of times the program is run against the same file
MaxSessions == 2
\* largest of the consecutive file sizes getPage is exercised on (two pages
\* and a row)
MaxPagerFile == 38

\* ------------------------------------------------------------------------
\* Byte and slice helpers
\* ------------------------------------------------------------------------
Min(a, b) == IF a <= b THEN a ELSE b
Max(a, b) == IF a >= b THEN a ELSE b

\* make([]byte, n): n zero bytes
Zeros(n) == [k \in 1..n |-> 0]

\* number of values of one byte (the radix of the little-endian encoding)
ByteRange == 256

RECURSIVE Pow(_, _)
Pow(b, e) == IF e = 0 THEN 1 ELSE b * Pow(b, e - 1)

\* copy(dst[lo:hi], src) on buffer buf: copies min(hi-lo, len(src)) bytes
\* and leaves every other byte of buf as it was
CopyInto(buf, lo, hi, src) ==
    LET n == Min(hi - lo, Len(src))
    IN  [k \in 1..Len(buf) |->
            IF k > lo /\ k <= lo + n THEN src[k - lo] ELSE buf[k]]

\* binary.LittleEndian.PutUint32(buf[off:], v), IDSize bytes wide
PutUint(buf, off, v) ==
    [k \in 1..Len(buf) |->
        IF k > off /\ k <= off + IDSize
        THEN (v \div Pow(ByteRange, k - off - 1)) % ByteRange
        ELSE buf[k]]

RECURSIVE UintAt(_, _, _)
\* binary.LittleEndian.Uint32(buf[off:]), IDSize bytes wide
UintAt(buf, off, n) ==
    IF n = 0 THEN 0
    ELSE buf[off + 1] + ByteRange * UintAt(buf, off + 1, n - 1)

RECURSIVE TrimLeft(_)
TrimLeft(s) == IF s # <<>> /\ Head(s) = 0 THEN TrimLeft(Tail(s)) ELSE s

RECURSIVE TrimRight(_)
TrimRight(s) ==
    IF s # <<>> /\ s[Len(s)] = 0 THEN TrimRight(SubSeq(s, 1, Len(s) - 1)) ELSE s

\* bytes.Trim(buf, "\x00"): strips leading and trailing zero bytes
trimNilBuf(buf) == TrimRight(TrimLeft(buf))

\* ------------------------------------------------------------------------
\* Row codec (main.go:215-230).  A slice expression page[lo:hi] panics when
\* hi exceeds the capacity of the page; PutUint32/Uint32 panic when fewer
\* than IDSize bytes remain.  The result carries the panic flag and the
\* buffer as the bytes written before the panic left it.
\* ------------------------------------------------------------------------
Row(id, u, e) == [ID |-> id, Username |-> u, Email |-> e]
ZeroRow == Row(0, <<>>, <<>>)

\* the third statement of serializeRow, on the buffer the second one left
SerializeEmail(row, page, slot) ==
    IF slot + RowSize > Len(page)
    THEN [page |-> page, panic |-> TRUE]
    ELSE [page |-> CopyInto(page, slot + EmailOffset, slot + RowSize, row.Email),
          panic |-> FALSE]

\* the second statement of serializeRow, on the buffer the first one left
SerializeUsername(row, page, slot) ==
    IF slot + EmailOffset > Len(page)
    THEN [page |-> page, panic |-> TRUE]
    ELSE SerializeEmail(row,
                        CopyInto(page, slot + UsernameOffset, slot + EmailOffset,
                                 row.Username),
                        slot)

serializeRow(row, page, slot) ==
    IF slot + IDOffset + IDSize > Len(page)
    THEN [page |-> page, panic |-> TRUE]
    ELSE SerializeUsername(row, PutUint(page, slot + IDOffset, row.ID), slot)

deserializeRow(page, slot) ==
    IF slot + RowSize > Len(page)
    THEN [row |-> ZeroRow, panic |-> TRUE]
    ELSE [row |-> Row(UintAt(page, slot + IDOffset, IDSize),
                      trimNilBuf(SubSeq(page, slot + UsernameOffset + 1,
                                        slot + EmailOffset)),
                      trimNilBuf(SubSeq(page, slot + EmailOffset + 1,
                                        slot + RowSize))),
          panic |-> FALSE]

\* ------------------------------------------------------------------------
\* File (os.File): the bytes on disk.  Read fills the buffer from a file
\* offset and stops at the end of the file (a read at or past the end
\* returns io.EOF, which getPage tolerates); WriteAt extends the file,
\* zero-filling any gap.
\* ------------------------------------------------------------------------
FileRead(f, off, buf) ==
    [k \in 1..Len(buf) |->
        IF k <= Min(Len(buf), Max(0, Len(f) - off)) THEN f[off + k] ELSE buf[k]]

FileWriteAt(f, buf, off) ==
    [k \in 1..Max(Len(f), off + Len(buf)) |->
        IF k > off /\ k <= off + Len(buf) THEN buf[k - off]
        ELSE IF k <= Len(f) THEN f[k] ELSE 0]

\* ------------------------------------------------------------------------
\* Pager (main.go:116-184).  Pages is the array [TableMaxPages][]byte; the
\* nil slice is <<>>.
\* ------------------------------------------------------------------------
PageNums == 0..(TableMaxPages - 1)
NoPages == [p \in PageNums |-> <<>>]

\* the conversion uint32(x) of the source; the unsigned integers of the
\* model are IDSize bytes wide, as the ID is
UintRange == Pow(ByteRange, IDSize)
Uint32(x) == x % UintRange

\* Pager.File: the bytes on disk and the I/O failure the device answers
\* with while one handler runs: none, or every call of one kind fails
IOFaults == {"none", "stat", "seek", "read", "write"}
PagerFile(bytes, fault) == [data |-> bytes, fault |-> fault]

\* the page count getPage derives from the file size
NumPagesOf(fsize) ==
    IF fsize % PageSize = 0 THEN fsize \div PageSize + 1 ELSE fsize \div PageSize

\* the buffer getPage builds for a page that is not cached yet
LoadPage(f, pageNum) ==
    IF pageNum <= NumPagesOf(Uint32(Len(f.data)))
    THEN FileRead(f.data, Uint32(pageNum * PageSize), Zeros(PageSize))
    ELSE Zeros(PageSize)

\* the error of the load of a page that is not cached yet: Stat fails and
\* fstat.Size() is called on the nil FileInfo before err is tested (a
\* runtime panic), or Seek or Read, which only run for a page within the
\* page count, fail and their error is returned
LoadError(f, pageNum) ==
    IF f.fault = "stat" THEN "nil pointer dereference"
    ELSE IF pageNum > NumPagesOf(Uint32(Len(f.data))) THEN "nil"
    ELSE IF f.fault = "seek" THEN "seek error"
    ELSE IF f.fault = "read" THEN "read error"
    ELSE "nil"

\* getPage on a page that is not cached and whose load fails with e: the
\* buffer assigned to Pages[pageNum] before the file is touched stays
FailedPage(pages, pageNum, e) ==
    [pages |-> [pages EXCEPT ![pageNum] = Zeros(PageSize)], buf |-> <<>>,
     err |-> e]

\* getPage on a page that is not cached: the loaded buffer b is cached
CachePage(pages, pageNum, b) ==
    [pages |-> [pages EXCEPT ![pageNum] = b], buf |-> b, err |-> "nil"]

\* the errors getPage returns, and the runtime panics raised inside it
\* (Pages[pageNum] for pageNum = TableMaxPages, fstat.Size() on a nil fstat)
GetPageErrors == {"ErrFail", "seek error", "read error"}
GetPagePanics == {"index out of range", "nil pointer dereference"}
\* those of them that an I/O failure causes
LoadFaults == {"nil pointer dereference", "seek error", "read error"}

\* getPage without the test of the cache: every call loads the page
getPage_Reload(f, pages, pageNum) ==
    IF pageNum > TableMaxPages
    THEN [pages |-> pages, buf |-> <<>>, err |-> "ErrFail"]
    ELSE IF pageNum \notin PageNums
    THEN [pages |-> pages, buf |-> <<>>, err |-> "index out of range"]
    ELSE IF LoadError(f, pageNum) # "nil"
    THEN FailedPage(pages, pageNum, LoadError(f, pageNum))
    ELSE CachePage(pages, pageNum, LoadPage(f, pageNum))

\* err is "nil", one of GetPageErrors or one of GetPagePanics
getPage(f, pages, pageNum) ==
    IF pageNum > TableMaxPages
    THEN [pages |-> pages, buf |-> <<>>, err |-> "ErrFail"]
    ELSE IF pageNum \notin PageNums
    THEN [pages |-> pages, buf |-> <<>>, err |-> "index out of range"]
    ELSE IF pages[pageNum] # <<>>
    THEN [pages |-> pages, buf |-> pages[pageNum], err |-> "nil"]
    ELSE IF LoadError(f, pageNum) # "nil"
    THEN FailedPage(pages, pageNum, LoadError(f, pageNum))
    ELSE CachePage(pages, pageNum, LoadPage(f, pageNum))

\* ------------------------------------------------------------------------
\* Table (main.go:99-114, 186-253)
\* ------------------------------------------------------------------------
\* rowSlot with the slot offset in units of IDSize for RowSize
RowSlotOf_NarrowSlot(g, rowNum) ==
    [pages |-> g.pages, page |-> g.buf, pageNum |-> rowNum \div RowsPerPage,
     slot |-> (rowNum % RowsPerPage) * IDSize,
     panic |-> g.err # "nil", err |-> g.err]

\* rowSlot after its call of getPage returned g: it panics on every error
RowSlotOf(g, rowNum) ==
    [pages |-> g.pages, page |-> g.buf, pageNum |-> rowNum \div RowsPerPage,
     slot |-> (rowNum % RowsPerPage) * RowSize,
     panic |-> g.err # "nil", err |-> g.err]

rowSlot(f, pages, rowNum) ==
    RowSlotOf(getPage(f, pages, rowNum \div RowsPerPage), rowNum)

ExecuteTableFull == "ExecuteTableFull"
ExecuteSuccess == "ExecuteSuccess"
ExecuteNone == "none"

\* the runtime panic of a slice expression that ends beyond the buffer
SliceBounds == "slice bounds out of range"

\* executeInsert after serializeRow returned s on the slot rs
InsertSerialized(numRows, rs, s) ==
    [exec |-> IF s.panic THEN ExecuteNone ELSE ExecuteSuccess,
     NumRows |-> IF s.panic THEN numRows ELSE numRows + 1,
     Pages |-> [rs.pages EXCEPT ![rs.pageNum] = s.page],
     rows |-> <<>>, panic |-> s.panic,
     err |-> IF s.panic THEN SliceBounds ELSE "nil", page |-> rs.pageNum]

\* executeInsert after rowSlot returned rs
InsertAt(row, numRows, rs) ==
    IF rs.panic
    THEN [exec |-> ExecuteNone, NumRows |-> numRows, Pages |-> rs.pages,
          rows |-> <<>>, panic |-> TRUE, err |-> rs.err, page |-> rs.pageNum]
    ELSE InsertSerialized(numRows, rs, serializeRow(row, rs.page, rs.slot))

\* executeInsert with the capacity test off by one (> for >=)
executeInsert_OffByOne(row, f, numRows, pages) ==
    IF numRows > TableMaxRows
    THEN [exec |-> ExecuteTableFull, NumRows |-> numRows, Pages |-> pages,
          rows |-> <<>>, panic |-> FALSE, err |-> "nil", page |-> 0]
    ELSE InsertAt(row, numRows, rowSlot(f, pages, numRows))

executeInsert(row, f, numRows, pages) ==
    IF numRows >= TableMaxRows
    THEN [exec |-> ExecuteTableFull, NumRows |-> numRows, Pages |-> pages,
          rows |-> <<>>, panic |-> FALSE, err |-> "nil", page |-> 0]
    ELSE InsertAt(row, numRows, rowSlot(f, pages, numRows))

RECURSIVE SelectLoop(_, _, _, _, _)
\* the loop body of executeSelect after deserializeRow returned d
SelectDecoded(i, f, numRows, rows, rs, d) ==
    IF d.panic
    THEN [exec |-> ExecuteNone, NumRows |-> numRows, Pages |-> rs.pages,
          rows |-> rows, panic |-> TRUE, err |-> SliceBounds,
          page |-> rs.pageNum]
    ELSE SelectLoop(i + 1, f, numRows, rs.pages, Append(rows, d.row))

\* the loop body of executeSelect after rowSlot returned rs
SelectRow(i, f, numRows, rows, rs) ==
    IF rs.panic
    THEN [exec |-> ExecuteNone, NumRows |-> numRows, Pages |-> rs.pages,
          rows |-> rows, panic |-> TRUE, err |-> rs.err, page |-> rs.pageNum]
    ELSE SelectDecoded(i, f, numRows, rows, rs, deserializeRow(rs.page, rs.slot))

\* the loop of executeSelect from row i on; rows are the rows printed so far
SelectLoop(i, f, numRows, pages, rows) ==
    IF i >= numRows
    THEN [exec |-> ExecuteSuccess, NumRows |-> numRows, Pages |-> pages,
          rows |-> rows, panic |-> FALSE, err |-> "nil", page |-> 0]
    ELSE SelectRow(i, f, numRows, rows, rowSlot(f, pages, i))

executeSelect(f, numRows, pages) == SelectLoop(0, f, numRows, pages, <<>>)

\* the deferred calls of Table.Close in the order the defer statements
\* register them; they run last-registered first
CloseDefers == <<"Sync", "Close">>

RECURSIVE RunDefers(_, _, _)
\* runs the deferred calls k, k-1, .., 1 on the handle; Sync on a released
\* handle fails (os.ErrClosed) and flushes nothing
RunDefers(k, open, log) ==
    IF k = 0 THEN [open |-> open, log |-> log]
    ELSE IF CloseDefers[k] = "Close"
    THEN RunDefers(k - 1, FALSE, Append(log, [op |-> "Close", ok |-> open]))
    ELSE RunDefers(k - 1, open, Append(log, [op |-> "Sync", ok |-> open]))

\* Pager.File.WriteAt: a write that fails writes nothing; Table.Close
\* drops the error
PagerWriteAt(f, buf, off) ==
    IF f.fault = "write" THEN f
    ELSE [f EXCEPT !.data = FileWriteAt(@, buf, off)]

RECURSIVE CloseLoop(_, _, _, _, _)
\* the loop body of Table.Close after rowSlot returned rs
CloseRow(i, f, numRows, log, rs) ==
    IF rs.panic
    THEN [file |-> f, Pages |-> rs.pages, panic |-> TRUE,
          log |-> Append(log, [op |-> "panic", ok |-> FALSE, row |-> i,
                               page |-> rs.pageNum, err |-> rs.err])]
    ELSE CloseLoop(i + 1, PagerWriteAt(f, rs.page, rs.slot), numRows,
                   rs.pages,
                   Append(log, [op |-> "WriteAt", ok |-> f.fault # "write",
                                row |-> i, page |-> rs.pageNum,
                                off |-> rs.slot, buf |-> rs.page]))

\* the write loop of Table.Close from row i on
CloseLoop(i, f, numRows, pages, log) ==
    IF i >= numRows
    THEN [file |-> f, Pages |-> pages, log |-> log, panic |-> FALSE]
    ELSE CloseRow(i, f, numRows, log, rowSlot(f, pages, i))

\* Table.Close after its loop ended in w and its deferred calls in d
CloseResult(w, d) ==
    [file |-> w.file, Pages |-> w.Pages, log |-> d.log, open |-> d.open,
     panic |-> w.panic]

\* Table.Close after its loop ended in w: the deferred calls run, also when
\* the loop panicked
CloseDeferred(w) == CloseResult(w, RunDefers(Len(CloseDefers), TRUE, w.log))

\* Table.Close
TableClose(f, numRows, pages) ==
    CloseDeferred(CloseLoop(0, f, numRows, pages, <<>>))

\* ------------------------------------------------------------------------
\* Input lines: sequences of ASCII codes
\* ------------------------------------------------------------------------
Space == 32
Dot == 46
kwInsert == <<105, 110, 115, 101, 114, 116>>      \* "insert"
kwSelect == <<115, 101, 108, 101, 99, 116>>       \* "select"
ExitLine == <<Dot, 101, 120, 105, 116>>           \* ".exit"

IsSpace(c) == c \in {9, 13, Space}
IsDigit(c) == c \in 48..57

\* strings.HasPrefix
HasPrefix(s, pre) == Len(s) >= Len(pre) /\ SubSeq(s, 1, Len(pre)) = pre

RECURSIVE SkipSpace(_, _)
\* the first position at or after i that holds no space (Len(s)+1: none)
SkipSpace(s, i) == IF i <= Len(s) /\ IsSpace(s[i]) THEN SkipSpace(s, i + 1) ELSE i

RECURSIVE TokenEnd(_, _)
\* the position after the run of non-space characters that starts at i
TokenEnd(s, i) == IF i <= Len(s) /\ ~IsSpace(s[i]) THEN TokenEnd(s, i + 1) ELSE i

RECURSIVE DigitsEnd(_, _)
\* the position after the run of decimal digits that starts at i
DigitsEnd(s, i) == IF i <= Len(s) /\ IsDigit(s[i]) THEN DigitsEnd(s, i + 1) ELSE i

RECURSIVE ParseUint(_)
\* strconv.ParseUint of a run of decimal digits
ParseUint(d) ==
    IF d = <<>> THEN 0
    ELSE 10 * ParseUint(SubSeq(d, 1, Len(d) - 1)) + (d[Len(d)] - 48)

\* a space of the format must meet a space or the end of the input
FormatSpaceOK(s, i) == i > Len(s) \/ IsSpace(s[i])

\* fmt.Sscanf(in, "insert %d %s %s", &ID, &Username, &Email), verb by verb.
\* The result is n, the number of operands scanned, err, and the operands
\* as the scan left them.  Operands are stored only when their verb
\* succeeds; input left over after the last verb is not looked at.
ScanFail(n, id, u) == [n |-> n, err |-> TRUE, row |-> Row(id, u, <<>>)]

\* the second %s: the token at i..j-1
ScanEmailToken(in, id, u, i, j) ==
    IF j = i THEN ScanFail(2, id, u)
    ELSE [n |-> 3, err |-> FALSE, row |-> Row(id, u, SubSeq(in, i, j - 1))]

\* the first %s: the token at i..j-1, then the space of the format
ScanUsernameToken(in, id, i, j) ==
    IF j = i THEN ScanFail(1, id, <<>>)
    ELSE ScanEmailToken(in, id, SubSeq(in, i, j - 1), SkipSpace(in, j),
                        TokenEnd(in, SkipSpace(in, j)))

\* %d gave id and stopped at j, then the space of the format
ScanIDValue(in, j, id) ==
    IF id >= Pow(ByteRange, IDSize) THEN ScanFail(0, 0, <<>>)
    ELSE IF ~FormatSpaceOK(in, j) THEN ScanFail(1, id, <<>>)
    ELSE ScanUsernameToken(in, id, SkipSpace(in, j),
                           TokenEnd(in, SkipSpace(in, j)))

\* %d: the digits at i..j-1
ScanIDDigits(in, i, j) ==
    IF j = i THEN ScanFail(0, 0, <<>>)
    ELSE ScanIDValue(in, j, ParseUint(SubSeq(in, i, j - 1)))

Sscanf(in) ==
    IF ~HasPrefix(in, kwInsert) \/ ~FormatSpaceOK(in, Len(kwInsert) + 1)
    THEN ScanFail(0, 0, <<>>)
    ELSE ScanIDDigits(in, SkipSpace(in, Len(kwInsert) + 1),
                      DigitsEnd(in, SkipSpace(in, Len(kwInsert) + 1)))

\* ------------------------------------------------------------------------
\* Command interpreter (main.go:255-323)
\* ------------------------------------------------------------------------
MetaCommandAbort == "MetaCommandAbort"
MetaCommandSuccess == "MetaCommandSuccess"
MetaCommandUnrecognizedCommand == "MetaCommandUnrecognizedCommand"

\* doMetaCommand without the .exit case
doMetaCommand_NoExit(in) == MetaCommandUnrecognizedCommand

doMetaCommand(in) ==
    IF in = ExitLine THEN MetaCommandAbort ELSE MetaCommandUnrecognizedCommand

PrepareStatementUnrecognized == "PrepareStatementUnrecognized"
PrepareResultSyntaxError == "PrepareResultSyntaxError"
PrepareResultSuccess == "PrepareResultSuccess"

StatementKindNone == "none"
StatementKindInsert == "StatementKindInsert"
StatementKindSelect == "StatementKindSelect"

\* the insert branch of prepareStatement after Sscanf returned sc
PreparedInsert(sc) ==
    [res |-> IF sc.err \/ sc.n # 3 THEN PrepareResultSyntaxError
             ELSE PrepareResultSuccess,
     Kind |-> StatementKindInsert, RowToInsert |-> sc.row]

prepareStatement(in) ==
    IF HasPrefix(in, kwInsert) THEN PreparedInsert(Sscanf(in))
    ELSE IF HasPrefix(in, kwSelect)
    THEN [res |-> PrepareResultSuccess, Kind |-> StatementKindSelect,
          RowToInsert |-> ZeroRow]
    ELSE [res |-> PrepareStatementUnrecognized, Kind |-> StatementKindNone,
          RowToInsert |-> ZeroRow]

\* executeStatement: dispatch on the statement kind; the ExecuteResult of
\* the callee is kept here for inspection, the source drops it
executeStatement(stmt, f, numRows, pages) ==
    IF stmt.Kind = StatementKindInsert
    THEN executeInsert(stmt.RowToInsert, f, numRows, pages)
    ELSE IF stmt.Kind = StatementKindSelect
    THEN executeSelect(f, numRows, pages)
    ELSE [exec |-> ExecuteNone, NumRows |-> numRows, Pages |-> pages,
          rows |-> <<>>, panic |-> FALSE, err |-> "nil", page |-> 0]

\* what the loop of run does after the meta-command switch
MetaControl(m) ==
    IF m = MetaCommandAbort THEN "return"
    ELSE IF m \in {MetaCommandSuccess, MetaCommandUnrecognizedCommand}
    THEN "continue"
    ELSE "statement"

\* the prepareStatement switch with the syntax-error case falling into the
\* success case
PrepareControl_FallThrough(p) ==
    IF p \in {PrepareResultSuccess, PrepareResultSyntaxError} THEN "execute"
    ELSE "continue"

\* what the loop of run does after the prepareStatement switch
PrepareControl(p) ==
    IF p = PrepareResultSuccess THEN "execute"
    ELSE "continue"

\* the message run prints after the prepareStatement switch
PrepareMessage(p) ==
    IF p = PrepareResultSuccess THEN "Executed"
    ELSE IF p = PrepareResultSyntaxError THEN "Syntax error"
    ELSE "Unrecognized statement"

\* What one iteration of the loop of run did: the line, the results of
\* doMetaCommand, prepareStatement and the execute function, the message
\* printed, the rows select printed, how the iteration ended (ctl is
\* "continue", "return" or "panic"), the table it left and, for a panic,
\* its cause and the page being addressed.
NoOutcome ==
    [op |-> "none", line |-> <<>>, meta |-> "none", prep |-> "none",
     kind |-> StatementKindNone, row |-> ZeroRow, exec |-> ExecuteNone,
     msg |-> "", rows |-> <<>>, ctl |-> "continue",
     NumRows |-> 0, Pages |-> NoPages, err |-> "nil", errPage |-> 0]

\* an iteration that changes nothing
LineOutcome(in, numRows, pages) ==
    [NoOutcome EXCEPT !.op = "line", !.line = in, !.NumRows = numRows,
                      !.Pages = pages]

\* the iteration after executeStatement returned x (or panicked)
RunExecuted(o, x) ==
    [o EXCEPT !.exec = x.exec, !.rows = x.rows,
              !.ctl = IF x.panic THEN "panic" ELSE "continue",
              !.msg = IF x.panic THEN "" ELSE PrepareMessage(o.prep),
              !.NumRows = x.NumRows, !.Pages = x.Pages,
              !.err = x.err, !.errPage = x.page]

\* the iteration after prepareStatement returned st; o is the outcome so far
RunPrepared(o, st, f, numRows, pages) ==
    IF PrepareControl(st.res) = "continue"
    THEN [o EXCEPT !.prep = st.res, !.kind = st.Kind, !.row = st.RowToInsert,
                   !.msg = PrepareMessage(st.res)]
    ELSE RunExecuted([o EXCEPT !.prep = st.res, !.kind = st.Kind,
                               !.row = st.RowToInsert],
                     executeStatement(st, f, numRows, pages))

\* the iteration on a line that starts with a dot, doMetaCommand returned m
RunMeta(o, m, in, f, numRows, pages) ==
    IF MetaControl(m) = "return"
    THEN [o EXCEPT !.meta = m, !.ctl = "return"]
    ELSE IF MetaControl(m) = "continue"
    THEN [o EXCEPT !.meta = m,
                   !.msg = IF m = MetaCommandUnrecognizedCommand
                           THEN "Unrecognized command" ELSE ""]
    ELSE RunPrepared([o EXCEPT !.meta = m], prepareStatement(in), f, numRows,
                     pages)

\* one iteration of the loop of run on the line in (already trimmed)
RunLine(in, f, numRows, pages) ==
    IF in = <<>> THEN LineOutcome(in, numRows, pages)
    ELSE IF in[1] = Dot
    THEN RunMeta(LineOutcome(in, numRows, pages), doMetaCommand(in), in, f,
                 numRows, pages)
    ELSE RunPrepared(LineOutcome(in, numRows, pages), prepareStatement(in), f,
                     numRows, pages)

\* ------------------------------------------------------------------------
\* The session: run (main.go:30-83) against the file scratch.db
\* ------------------------------------------------------------------------
\* the lines the reader may deliver (the trailing newline already trimmed)
Lines ==
    { <<>>,                                                   \* empty line
      ExitLine,                                               \* .exit
      <<Dot, 102, 111, 111>>,                                 \* .foo
      <<102, 111, 111>>,                                      \* foo
      kwSelect,                                               \* select
      kwInsert,                                               \* insert
      kwInsert \o <<Space, 49, Space, 97, Space, 98>>,        \* insert 1 a b
      kwInsert \o <<Space, 50, 53, 56, Space, 99, 100, Space, 101>>,
                                                              \* insert 258 cd e
      kwInsert \o <<Space, 49, Space, 97>>,                   \* insert 1 a
      kwInsert \o <<Space, 120, Space, 97, Space, 98>>,       \* insert x a b
      kwInsert \o <<Space, 49, Space, 97, Space, 98, Space, 99>> }
                                                              \* insert 1 a b c

\* the files scratch.db may hold before the first run: none (created
\* empty), a file of exactly TableMaxRows rows, one of a row more, and a
\* short file of non-zero bytes
InitFiles ==
    { <<>>,
      Zeros(TableMaxRows * RowSize),
      Zeros((TableMaxRows + 1) * RowSize),
      [k \in 1..(PageSize + RowSize) |-> 120] }

NoPrev ==
    [startRows |-> 0, inserted |-> <<>>, end |-> "none", writesOK |-> TRUE]

VARIABLES
    pc,         \* "start", "idle" (in the read loop), "exited", "crashed";
                \* "pager" in SpecPager
    file,       \* the bytes of scratch.db
    fileOpen,   \* whether Pager.File is an open handle
    NumRows,    \* Table.NumRows
    Pages,      \* Pager.Pages
    last,       \* what the last loop iteration did (see NoOutcome)
    closeLog,   \* the file calls of Table.Close in this run, in order
    startRows,  \* NumRows as openDB set it in this run
    inserted,   \* the rows of the inserts that succeeded in this run
    prev,       \* startRows, inserted and the end of the previous run, and
                \* whether every write of its Table.Close succeeded
    executed,   \* whether executeStatement has been called in this run
    runErr,     \* what the last run returned: "nil", "error", or "panic"
                \* when it did not return; "none" while it runs
    sessions,   \* number of runs started
    codec       \* a row codec exercised on its own (see SpecCodec)

vars == <<pc, file, fileOpen, NumRows, Pages, last, closeLog, startRows,
          inserted, prev, executed, runErr, sessions, codec>>

CodecIdle ==
    [pc |-> "off", row |-> ZeroRow, buf |-> <<>>, slot |-> 0, out |-> ZeroRow]

Init ==
    /\ pc = "start"
    /\ file \in InitFiles
    /\ fileOpen = FALSE
    /\ NumRows = 0
    /\ Pages = NoPages
    /\ last = NoOutcome
    /\ closeLog = <<>>
    /\ startRows = 0
    /\ inserted = <<>>
    /\ prev = NoPrev
    /\ executed = FALSE
    /\ runErr = "none"
    /\ sessions = 0
    /\ codec = CodecIdle

\* the row count openDB derives from the file size
OpenRows(bytes) == Uint32(Len(bytes)) \div RowSize

\* openDB: open (or create) the file, NumRows from the file size
OpenDB ==
    /\ pc \in {"start", "exited", "crashed"}
    /\ sessions < MaxSessions
    /\ pc' = "idle"
    /\ fileOpen' = TRUE
    /\ NumRows' = OpenRows(file)
    /\ Pages' = NoPages
    /\ last' = [NoOutcome EXCEPT !.op = "open", !.NumRows = OpenRows(file)]
    /\ closeLog' = <<>>
    /\ startRows' = OpenRows(file)
    /\ inserted' = <<>>
    /\ prev' = IF pc = "start" THEN NoPrev
               ELSE [startRows |-> startRows, inserted |-> inserted,
                     end |-> pc,
                     writesOK |-> \A k \in 1..Len(closeLog) : closeLog[k].ok
                                     \/ closeLog[k].op # "WriteAt"]
    /\ executed' = FALSE
    /\ runErr' = "none"
    /\ sessions' = sessions + 1
    /\ UNCHANGED <<file, codec>>

\* openDB fails (openPager or Stat returns an error): run returns the error
\* before the deferred closure is registered, and pc keeps the end of the
\* last run that opened the file
OpenFail ==
    /\ pc \in {"start", "exited", "crashed"}
    /\ sessions < MaxSessions
    /\ last' = [NoOutcome EXCEPT !.op = "openfail", !.ctl = "return",
                                 !.err = "open error"]
    /\ runErr' = "error"
    /\ sessions' = sessions + 1
    /\ UNCHANGED <<pc, file, fileOpen, NumRows, Pages, closeLog, startRows,
                   inserted, prev, executed, codec>>

\* the error Table.Close returns: nil on every path; the deferred closure
\* of run assigns it to the named result err, whatever run was returning
CloseError == "nil"

\* the end of run after Table.Close, called by the deferred closure,
\* returned c (or panicked)
EndWith(c, numRows, panicking) ==
    /\ pc' = IF panicking \/ c.panic THEN "crashed" ELSE "exited"
    /\ runErr' = IF panicking \/ c.panic THEN "panic" ELSE CloseError
    /\ file' = c.file.data
    /\ fileOpen' = c.open
    /\ Pages' = c.Pages
    /\ NumRows' = numRows
    /\ closeLog' = c.log

\* run returns or panics: the deferred closure calls Table.Close
EndRun(numRows, pages, panicking, io) ==
    EndWith(TableClose(PagerFile(file, io), numRows, pages), numRows,
            panicking)

\* ReadString returns io.EOF: run returns nil
ReadEOF(io) ==
    /\ pc = "idle"
    /\ last' = [NoOutcome EXCEPT !.op = "eof", !.ctl = "return",
                                 !.NumRows = NumRows, !.Pages = Pages]
    /\ EndRun(NumRows, Pages, FALSE, io)
    /\ UNCHANGED <<startRows, inserted, prev, executed, sessions, codec>>

\* the state after a loop iteration with outcome o
AfterLine(o, io) ==
    /\ last' = o
    /\ inserted' = IF o.kind = StatementKindInsert /\ o.exec = ExecuteSuccess
                   THEN Append(inserted, o.row) ELSE inserted
    /\ IF o.ctl = "continue"
       THEN /\ NumRows' = o.NumRows
            /\ Pages' = o.Pages
            /\ UNCHANGED <<pc, file, fileOpen, closeLog, runErr>>
       ELSE EndRun(o.NumRows, o.Pages, o.ctl = "panic", io)
    /\ executed' = (executed \/ o.exec # ExecuteNone \/ o.ctl = "panic")
    /\ UNCHANGED <<startRows, prev, sessions, codec>>

\* ReadString returns a line: one iteration of the loop
ReadLine(in, io) ==
    /\ pc = "idle"
    /\ AfterLine(RunLine(in, PagerFile(file, io), NumRows, Pages), io)

Next ==
    \/ OpenDB
    \/ OpenFail
    \/ \E io \in IOFaults : ReadEOF(io)
    \/ \E in \in Lines, io \in IOFaults : ReadLine(in, io)

Spec == Init /\ [][Next]_vars

\* ------------------------------------------------------------------------
\* The row codec on its own: a row, a destination buffer with some prior
\* content and a slot are drawn, then serializeRow and deserializeRow run
\* ------------------------------------------------------------------------
RECURSIVE StringsUpTo(_, _)
\* the strings over the alphabet of length at most n
StringsUpTo(alphabet, n) ==
    IF n = 0 THEN {<<>>}
    ELSE LET shorter == StringsUpTo(alphabet, n - 1)
         IN  shorter \cup {Append(w, c) : w \in shorter, c \in alphabet}

CodecIDs == {0, 1, ByteRange + 2, Pow(ByteRange, IDSize) - 1}
CodecRows ==
    {Row(id, u, e) : id \in CodecIDs,
                     u \in StringsUpTo({97, 98}, UsernameSize),
                     e \in StringsUpTo({97, 98}, EmailSize)}
\* prior contents of the destination: a fresh page and a page of 'x' bytes
CodecBuffers == {Zeros(PageSize), [k \in 1..PageSize |-> 120]}
\* the slots at which a whole row lies inside the buffer
CodecSlots == {k * RowSize : k \in 0..((PageSize \div RowSize) - 1)}

InitCodec ==
    /\ pc = "start"
    /\ file = <<>>
    /\ fileOpen = FALSE
    /\ NumRows = 0
    /\ Pages = NoPages
    /\ last = NoOutcome
    /\ closeLog = <<>>
    /\ startRows = 0
    /\ inserted = <<>>
    /\ prev = NoPrev
    /\ executed = FALSE
    /\ runErr = "none"
    /\ sessions = 0
    /\ \E r \in CodecRows, b \in CodecBuffers, sl \in CodecSlots :
          codec = [pc |-> "input", row |-> r, buf |-> b, slot |-> sl,
                   out |-> ZeroRow]

CodecSerialize ==
    /\ codec.pc = "input"
    /\ codec' = [codec EXCEPT
                    !.pc = "encoded",
                    !.buf = serializeRow(codec.row, codec.buf, codec.slot).page]
    /\ UNCHANGED <<pc, file, fileOpen, NumRows, Pages, last, closeLog,
                   startRows, inserted, prev, executed, runErr, sessions>>

CodecDeserialize ==
    /\ codec.pc = "encoded"
    /\ codec' = [codec EXCEPT
                    !.pc = "decoded",
                    !.out = deserializeRow(codec.buf, codec.slot).row]
    /\ UNCHANGED <<pc, file, fileOpen, NumRows, Pages, last, closeLog,
                   startRows, inserted, prev, executed, runErr, sessions>>

NextCodec == CodecSerialize \/ CodecDeserialize

SpecCodec == InitCodec /\ [][NextCodec]_vars

\* ------------------------------------------------------------------------
\* getPage on its own: a file is drawn, then each page is fetched once
\* through a fresh pager with no I/O failure
\* ------------------------------------------------------------------------
\* the file sizes: every size up to MaxPagerFile, and one that the
\* unsigned integer of the size conversion cannot hold
PagerSizes == (0..MaxPagerFile) \cup {UintRange + RowSize - 1}
\* files of non-zero bytes that differ from position to position
PagerFiles == {[k \in 1..n |-> (k % (ByteRange - 1)) + 1] : n \in PagerSizes}

InitPager ==
    /\ pc = "pager"
    /\ file \in PagerFiles
    /\ fileOpen = TRUE
    /\ NumRows = 0
    /\ Pages = NoPages
    /\ last = NoOutcome
    /\ closeLog = <<>>
    /\ startRows = 0
    /\ inserted = <<>>
    /\ prev = NoPrev
    /\ executed = FALSE
    /\ runErr = "none"
    /\ sessions = 0
    /\ codec = CodecIdle

\* the pager after getPage(pageNum) returned g
Fetched(g, pageNum) ==
    /\ Pages' = g.pages
    /\ last' = [NoOutcome EXCEPT !.op = "getPage", !.err = g.err,
                                 !.errPage = pageNum, !.Pages = g.pages]

\* the first getPage of a page
FetchPage(pageNum) ==
    /\ pc = "pager"
    /\ Pages[pageNum] = <<>>
    /\ Fetched(getPage(PagerFile(file, "none"), Pages, pageNum), pageNum)
    /\ UNCHANGED <<pc, file, fileOpen, NumRows, closeLog, startRows, inserted,
                   prev, executed, runErr, sessions, codec>>

NextPager == \E pageNum \in PageNums : FetchPage(pageNum)

SpecPager == InitPager /\ [][NextPager]_vars

\* ------------------------------------------------------------------------
\* Type invariant
\* ------------------------------------------------------------------------
TypeOK ==
    /\ pc \in {"start", "idle", "exited", "crashed", "pager"}
    /\ fileOpen \in BOOLEAN
    /\ NumRows \in Nat
    /\ \A p \in PageNums : Pages[p] = <<>> \/ Len(Pages[p]) = PageSize
    /\ runErr \in {"none", "nil", "error", "panic"}
    /\ sessions \in 0..MaxSessions

\* ------------------------------------------------------------------------
\* Helpers of the properties
\* ------------------------------------------------------------------------
\* a row whose strings are within their slot widths and hold no null byte
RowFits(r) ==
    /\ Len(r.Username) <= UsernameSize
    /\ Len(r.Email) <= EmailSize
    /\ \A k \in 1..Len(r.Username) : r.Username[k] # 0
    /\ \A k \in 1..Len(r.Email) : r.Email[k] # 0

AllFit(rows) == \A k \in 1..Len(rows) : RowFits(rows[k])

\* the last loop iteration ran a prepared insert / select
LastIsInsert ==
    /\ last.op = "line"
    /\ last.kind = StatementKindInsert
    /\ last.prep = PrepareResultSuccess
LastIsSelect ==
    /\ last.op = "line"
    /\ last.kind = StatementKindSelect
    /\ last.prep = PrepareResultSuccess

RECURSIVE Fields(_)
\* strings.Fields: the whitespace-delimited tokens of s
Fields(s) ==
    LET i == SkipSpace(s, 1)
        j == TokenEnd(s, i)
    IN  IF i > Len(s) THEN <<>>
        ELSE <<SubSeq(s, i, j - 1)>> \o Fields(SubSeq(s, j, Len(s)))

\* the tokens that follow the keyword of an insert line
InsertArgs(in) == Fields(SubSeq(in, Len(kwInsert) + 1, Len(in)))

\* a decimal numeral of an ID
IsUnsignedInt(tok) ==
    /\ tok # <<>>
    /\ \A k \in 1..Len(tok) : IsDigit(tok[k])
    /\ ParseUint(tok) < Pow(ByteRange, IDSize)

\* the positions of closeLog that hold a call of the given kind
CallsOf(op) == {k \in 1..Len(closeLog) : closeLog[k].op = op}

\* the bytes of page p as the file holds them: zero beyond its end
PageOnDisk(bytes, p) ==
    [k \in 1..PageSize |->
        IF p * PageSize + k <= Len(bytes) THEN bytes[p * PageSize + k] ELSE 0]

\* the bytes of page p as the table holds them: the cached buffer, or the
\* file's bytes while the page is not cached
Resident(pages, p) == IF pages[p] # <<>> THEN pages[p] ELSE PageOnDisk(file, p)

\* the positions of a page buffer that the slot of row r covers
SlotOf(r) ==
    {k \in 1..PageSize : /\ k > (r % RowsPerPage) * RowSize
                         /\ k <= (r % RowsPerPage) * RowSize + RowSize}

\* the encoded bytes of row r in the table
RowBytes(pages, r) ==
    [k \in SlotOf(r) |-> Resident(pages, r \div RowsPerPage)[k]]

\* ------------------------------------------------------------------------
\* Properties
\* ------------------------------------------------------------------------

\* C1: starting from an empty table and with no I/O failure, every insert of
\* a fitting row while fewer than TableMaxRows rows are stored succeeds, and
\* a select yields exactly the inserted rows in insertion order.
C1_InsertsThenSelect ==
    (startRows = 0 /\ AllFit(inserted) /\ last.err \notin LoadFaults) =>
        /\ (LastIsInsert /\ RowFits(last.row) /\ Len(inserted) < TableMaxRows)
              => (last.exec = ExecuteSuccess /\ last.ctl = "continue")
        /\ LastIsSelect => (last.ctl = "continue" /\ last.rows = inserted)

\* C2: rows inserted into an empty database and closed by a normal return
\* of run whose writes all succeeded are the rows of the table after it is
\* reopened: NumRows as openDB sets it is their number, and a select before
\* any further insert yields them in order.
C2_ReopenYieldsSameRows ==
    (/\ prev.end = "exited"
     /\ prev.startRows = 0
     /\ prev.writesOK
     /\ pc # "start"
     /\ last.err \notin LoadFaults) =>
        /\ startRows = Len(prev.inserted)
        /\ (LastIsSelect /\ inserted = <<>>)
              => (last.ctl = "continue" /\ last.rows = prev.inserted)

\* C3: for every row number below TableMaxRows the slot rowSlot computes
\* lies inside the page buffer: slot + RowSize <= PageSize.
C3_SlotInsidePage ==
    \A r \in 0..(TableMaxRows - 1) :
        rowSlot(PagerFile(file, "none"), Pages, r).slot + RowSize <= PageSize

\* C4: every write of Table.Close writes the buffer of the page p that
\* holds a row below NumRows at file offset p * PageSize.
C4_CloseWritesPageAligned ==
    \A k \in 1..Len(closeLog) :
        closeLog[k].op = "WriteAt" =>
            /\ closeLog[k].row < NumRows
            /\ closeLog[k].page = closeLog[k].row \div RowsPerPage
            /\ closeLog[k].buf = Pages[closeLog[k].page]
            /\ closeLog[k].off = closeLog[k].page * PageSize

\* C5: an insert attempted when NumRows has reached TableMaxRows returns
\* the table-full result and leaves NumRows and every cached page buffer
\* unchanged.
C5_FullInsertRejected ==
    [][(/\ pc = "idle"
        /\ NumRows >= TableMaxRows
        /\ last'.op = "line"
        /\ last'.kind = StatementKindInsert
        /\ last'.prep = PrepareResultSuccess)
       => (/\ last'.exec = ExecuteTableFull
           /\ last'.ctl = "continue"
           /\ NumRows' = NumRows
           /\ Pages' = Pages)]_vars

\* C5 witness: an insert on a full table has returned the table-full result
C5_Witness ==
    /\ LastIsInsert
    /\ last.exec = ExecuteTableFull
    /\ NumRows = TableMaxRows
    /\ pc = "idle"

\* C6: for a fitting row and any prior content of the buffer, serializeRow
\* followed by deserializeRow at the same slot returns the row.
C6_RoundTrip ==
    (codec.pc = "decoded" /\ RowFits(codec.row)) => codec.out = codec.row

\* C7: when the line .exit is read the session ends and Table.Close has
\* been invoked (its deferred file calls are in closeLog), whether or not a
\* statement was executed before.
C7_ExitClosesTable ==
    (last.op = "line" /\ last.line = ExitLine) =>
        /\ pc \in {"exited", "crashed"}
        /\ last.ctl = "return"
        /\ CallsOf("Close") # {}

\* C7 witness: .exit was the first line of a run that executed no statement
C7_Witness ==
    /\ last.op = "line"
    /\ last.line = ExitLine
    /\ ~executed
    /\ pc = "exited"
    /\ CallsOf("Close") # {}

\* C8: in Table.Close all page writes come first, then the flush of the
\* still-open file, then the release of the handle.
C8_CloseOrder ==
    closeLog # <<>> =>
        \E i \in CallsOf("Sync"), j \in CallsOf("Close") :
            /\ closeLog[i].ok
            /\ i < j
            /\ \A w \in CallsOf("WriteAt") : w < i

\* C9: a line that yields UnrecognizedCommand, UnrecognizedStatement or
\* SyntaxError leaves NumRows, the pages and the file unchanged and the
\* loop goes on reading.
C9_ErrorsLeaveTable ==
    [][(/\ pc = "idle"
        /\ last'.op = "line"
        /\ \/ last'.meta = MetaCommandUnrecognizedCommand
           \/ last'.prep \in {PrepareStatementUnrecognized,
                              PrepareResultSyntaxError})
       => (/\ pc' = "idle"
           /\ NumRows' = NumRows
           /\ Pages' = Pages
           /\ file' = file
           /\ inserted' = inserted
           /\ closeLog' = closeLog)]_vars

\* C9 witness: a syntax error was reported on a table that holds rows and
\* the loop is still reading
C9_Witness ==
    /\ last.op = "line"
    /\ last.prep = PrepareResultSyntaxError
    /\ last.msg = "Syntax error"
    /\ inserted # <<>>
    /\ pc = "idle"

\* C10: an insert line whose keyword is not followed by exactly three
\* tokens, or whose first token is no unsigned integer, yields SyntaxError
\* and no insert is executed.
C10_InsertNeedsThreeTokens ==
    (/\ last.op = "line"
     /\ HasPrefix(last.line, kwInsert)
     /\ \/ Len(InsertArgs(last.line)) # 3
        \/ ~IsUnsignedInt(InsertArgs(last.line)[1]))
    => (/\ last.prep = PrepareResultSyntaxError
        /\ last.exec = ExecuteNone
        /\ last.ctl = "continue")

\* C11: a request for a page number at or beyond TableMaxPages, made through
\* row addressing in insert, select or Close, never ends in a panic: no
\* loop iteration and no Table.Close panics while addressing such a page.
C11_PageBeyondMaxIsError ==
    /\ last.ctl = "panic" => last.errPage < TableMaxPages
    /\ \A k \in CallsOf("panic") : closeLog[k].page < TableMaxPages

\* C12: when opening the file fails, or a page write fails during the
\* Table.Close of a run that returns, run returns a non-nil error.
C12_IOErrorsAreReturned ==
    /\ last.op = "openfail" => runErr = "error"
    /\ (pc = "exited" /\ \E k \in CallsOf("WriteAt") : ~closeLog[k].ok)
          => runErr = "error"

\* C13: the message Executed is printed for an insert only if executeInsert
\* returned success; an insert rejected as table full is not acknowledged.
C13_ExecutedOnlyOnSuccess ==
    (LastIsInsert /\ last.msg = "Executed") => last.exec = ExecuteSuccess

\* C14: NumRows never exceeds TableMaxRows, also right after openDB.
C14_NumRowsWithinCapacity == NumRows <= TableMaxRows

\* C15: a successful insert increases NumRows by exactly 1, changes no byte
\* of the table outside the slot of row number NumRows (its value before
\* the insert) and so no encoded byte of a row below NumRows, and leaves
\* the file alone; no step of a session decreases NumRows.
C15_InsertAppendsOnly ==
    [][/\ pc = "idle" => NumRows' >= NumRows
       /\ (/\ pc = "idle"
           /\ last'.op = "line"
           /\ last'.kind = StatementKindInsert
           /\ last'.exec = ExecuteSuccess)
          => (/\ NumRows' = NumRows + 1
              /\ file' = file
              /\ \A p \in PageNums : \A k \in 1..PageSize :
                    (p # NumRows \div RowsPerPage \/ k \notin SlotOf(NumRows))
                       => Resident(Pages', p)[k] = Resident(Pages, p)[k]
              /\ \A r \in 0..(NumRows - 1) :
                    RowBytes(Pages', r) = RowBytes(Pages, r))]_vars

\* C15 witness: an insert has succeeded on a table that already held a row
C15_Witness ==
    /\ LastIsInsert
    /\ last.exec = ExecuteSuccess
    /\ last.ctl = "continue"
    /\ NumRows >= 2
    /\ inserted # <<>>
    /\ pc = "idle"

\* C16: a cached page stays cached for the rest of the session; getPage
\* returns its buffer whatever the file holds and whatever the device
\* answers, and its bytes change only where an insert writes its slot, so
\* no later fetch reverts them to the file's content.
C16_PagesStayResident ==
    [][pc = "idle" =>
         \A p \in PageNums :
            Pages[p] # <<>> =>
               /\ \A io \in IOFaults :
                     getPage(PagerFile(<<>>, io), Pages, p)
                        = [pages |-> Pages, buf |-> Pages[p], err |-> "nil"]
               /\ Pages'[p] # <<>>
               /\ \A k \in 1..PageSize :
                     Pages'[p][k] # Pages[p][k] =>
                        /\ last'.kind = StatementKindInsert
                        /\ p = NumRows \div RowsPerPage
                        /\ k \in SlotOf(NumRows)]_vars

\* C16 witness: a select has printed a row that only the cached page holds
C16_Witness ==
    /\ LastIsSelect
    /\ last.ctl = "continue"
    /\ last.rows # <<>>
    /\ last.rows = inserted
    /\ Pages[0] # PageOnDisk(file, 0)
    /\ pc = "idle"

\* C17: the buffer the first getPage(p) returns and caches for a page below
\* TableMaxPages holds the file's bytes of that page at every position
\* inside the file and zero at every position beyond its end, for every
\* file size.
C17_FirstFetchReadsFile ==
    \A p \in PageNums :
        (pc = "pager" /\ Pages[p] # <<>>) => Pages[p] = PageOnDisk(file, p)

\* C18: an I/O failure (stat, seek or read) during the load of a page is an
\* error getPage returns: whenever a loop iteration or Table.Close ended on
\* such a failure, its cause is a returned error and no panic raised
\* inside getPage.
C18_LoadFailuresAreReturned ==
    /\ last.err \in LoadFaults => last.err \in GetPageErrors
    /\ \A k \in CallsOf("panic") :
          closeLog[k].err \in LoadFaults => closeLog[k].err \in GetPageErrors

\* C19: after getPage returned an error for page p in a loop iteration, p
\* is not cached, and the Table.Close that ends the run obtains no buffer
\* of p to write.
C19_FailedLoadNotCached ==
    (last.err \in GetPageErrors /\ last.errPage \in PageNums) =>
        /\ last.Pages[last.errPage] = <<>>
        /\ \A k \in CallsOf("WriteAt") : closeLog[k].page # last.errPage

\* C20: a run that opens a file written by an earlier run from an empty
\* database, inserts nothing and returns leaves the size and the contents
\* of the file unchanged (the file does not change between openDB and the
\* end of the run, so the step that ends the run is the only one to look
\* at).
C20_OpenCloseKeepsFile ==
    [][(/\ pc = "idle"
        /\ pc' = "exited"
        /\ inserted' = <<>>
        /\ prev.end = "exited"
        /\ prev.startRows = 0
        /\ prev.writesOK)
       => file' = file]_vars

====
